---- MODULE Spec2Model ----
(***************************************************************************)
(* A model of requirements_generator.py: the import scanner adapter        *)
(* (get_imported_packages), the version resolver (get_package_version),    *)
(* the dependency graph builder (get_dependency_tree), the closure         *)
(* computer (get_all_dependencies) and the manifest writer                 *)
(* (generate_requirements).                                                *)
(*                                                                         *)
(* Python strings are sequences of code points, so that lower(),           *)
(* replace('-', '_'), the "'/' in version" test and the ordering used by   *)
(* sorted() are computed rather than assumed.  A text line that the code   *)
(* splits on '==' is the sequence of its '=='-separated fields.            *)
(***************************************************************************)
EXTENDS Integers, Sequences, FiniteSets, TLC

VARIABLES
    pc,           \* position of the running function
    caller,       \* the function the program was entered through
    call,         \* collaborator outputs / arguments of a directly called function
    ret,          \* return value of the directly called function
    direct_deps,  \* generate_requirements.direct_deps / get_all_dependencies arg
    versions,     \* name -> version map built by get_dependency_tree
    deps_graph,   \* name -> set of children built by get_dependency_tree
    all_deps,     \* get_all_dependencies.all_deps
    to_process,   \* get_all_dependencies.to_process (the work-list)
    popped,       \* history: the names popped from the work-list, in order
    subdeps,      \* generate_requirements.subdeps
    file,         \* the output file: "untouched", "open" or "closed"
    out,          \* the lines written to the output file
    idx,          \* position of the for loop over sorted(...) that writes lines
    lookup,       \* history: the last version lookup made for a manifest line
    printed,      \* the diagnostics printed so far that end the run
    scan_status,  \* how the pipreqs collaborator ended in this run
    tree_status   \* how the pipdeptree collaborator ended in this run

vars == <<pc, caller, call, ret, direct_deps, versions, deps_graph, all_deps,
          to_process, popped, subdeps, file, out, idx, lookup, printed,
          scan_status, tree_status>>

(***************************************************************************)
(* Strings                                                                 *)
(***************************************************************************)
S_empty == <<>>
S_a == <<97>>
S_b == <<98>>
S_c == <<99>>
S_B == <<66>>
S_a_hyphen_b == <<97, 45, 98>>
S_a_under_b == <<97, 95, 98>>
S_A_hyphen_b == <<65, 45, 98>>
S_A_under_B == <<65, 95, 66>>
V_1 == <<49>>
V_2 == <<50>>
V_3 == <<51>>
V_path == <<47, 112>>

\* str.lower() on one code point (ASCII letters)
LowerChar(c) == IF c >= 65 /\ c <= 90 THEN c + 32 ELSE c

\* str.lower()
Lower(s) == [i \in 1..Len(s) |-> LowerChar(s[i])]

\* 'c' in s
Contains(s, c) == \E i \in 1..Len(s) : s[i] = c

\* s.replace(chr(old), chr(new))
Replace(s, old, new) == [i \in 1..Len(s) |-> IF s[i] = old THEN new ELSE s[i]]

\* s < t for Python strings: code-point lexicographic order
StrLess(s, t) ==
    \E i \in 1..(Len(s) + 1) :
        /\ i <= Len(t)
        /\ \A j \in 1..(i - 1) : s[j] = t[j]
        /\ (i = Len(s) + 1 \/ s[i] < t[i])

\* sorted(S) for a set of strings
RECURSIVE Sorted(_)
Sorted(S) ==
    IF S = {} THEN <<>>
    ELSE LET m == CHOOSE x \in S : \A y \in S \ {x} : StrLess(x, y)
         IN  <<m>> \o Sorted(S \ {m})

\* the empty dict {}
EmptyMap == [x \in {} |-> {}]

\* d.get(k, '')
Get(d, k) == IF k \in DOMAIN d THEN d[k] ELSE S_empty

\* d[k] = v
Put(d, k, v) == [x \in DOMAIN d \cup {k} |-> IF x = k THEN v ELSE d[x]]

(***************************************************************************)
(* get_all_dependencies(direct_deps, deps_graph)                           *)
(***************************************************************************)
\* bounds of the directly called closure
MaxSeeds == 2
ClosurePkgs == {S_a, S_b, S_c}
ClosureSeeds == {D \in SUBSET ClosurePkgs : Cardinality(D) <= MaxSeeds}
ClosureGraphs ==
    UNION {[K -> SUBSET ClosurePkgs] : K \in SUBSET ClosurePkgs}

NoCall == [fn |-> "none"]
NoLookup == [name |-> S_empty, found |-> S_empty, source |-> "none", failed |-> FALSE]

ClosureEnterUnseeded ==
    /\ pc = "closure_call"
    /\ all_deps' = {}
    /\ to_process' = direct_deps
    /\ popped' = <<>>
    /\ pc' = "closure_loop"
    /\ UNCHANGED <<caller, call, ret, direct_deps, versions, deps_graph, subdeps,
                   file, out, idx, lookup, printed, scan_status, tree_status>>

\* lines 121-122: all_deps = set(direct_deps); to_process = set(direct_deps)
ClosureEnter ==
    /\ pc = "closure_call"
    /\ all_deps' = direct_deps
    /\ to_process' = direct_deps
    /\ popped' = <<>>
    /\ pc' = "closure_loop"
    /\ UNCHANGED <<caller, call, ret, direct_deps, versions, deps_graph, subdeps,
                   file, out, idx, lookup, printed, scan_status, tree_status>>

\* line 127: new_deps = deps_graph[dep] - all_deps
NewDepsKeepingSeen(graph, dep, seen) == graph[dep]
NewDeps(graph, dep, seen) == graph[dep] \ seen

LoopStepNoEnqueue ==
    /\ pc = "closure_loop"
    /\ to_process # {}
    /\ \E dep \in to_process :
        /\ popped' = Append(popped, dep)
        /\ to_process' = to_process \ {dep}
        /\ IF dep \in DOMAIN deps_graph
           THEN all_deps' = all_deps \cup NewDeps(deps_graph, dep, all_deps)
           ELSE all_deps' = all_deps
    /\ UNCHANGED <<pc, caller, call, ret, direct_deps, versions, deps_graph, subdeps,
                   file, out, idx, lookup, printed, scan_status, tree_status>>

\* lines 124-129: one iteration of the while loop; set.pop() removes an
\* arbitrary element
LoopStep ==
    /\ pc = "closure_loop"
    /\ to_process # {}
    /\ \E dep \in to_process :
        /\ popped' = Append(popped, dep)
        /\ IF dep \in DOMAIN deps_graph
           THEN LET new_deps == NewDeps(deps_graph, dep, all_deps)
                IN  /\ all_deps' = all_deps \cup new_deps
                    /\ to_process' = (to_process \ {dep}) \cup new_deps
           ELSE /\ all_deps' = all_deps
                /\ to_process' = to_process \ {dep}
    /\ UNCHANGED <<pc, caller, call, ret, direct_deps, versions, deps_graph, subdeps,
                   file, out, idx, lookup, printed, scan_status, tree_status>>

ClosureReturnInsideLoop ==
    /\ pc = "closure_loop"
    /\ to_process = {} \/ popped # <<>>
    /\ ret' = all_deps
    /\ pc' = "closure_returned"
    /\ UNCHANGED <<caller, call, direct_deps, versions, deps_graph, all_deps,
                   to_process, popped, subdeps, file, out, idx, lookup, printed,
                   scan_status, tree_status>>

\* line 131: return all_deps (the while condition is false)
ClosureReturn ==
    /\ pc = "closure_loop"
    /\ to_process = {}
    /\ ret' = all_deps
    /\ pc' = "closure_returned"
    /\ UNCHANGED <<caller, call, direct_deps, versions, deps_graph, all_deps,
                   to_process, popped, subdeps, file, out, idx, lookup, printed,
                   scan_status, tree_status>>

\* a direct call get_all_dependencies(D, G)
InitClosure ==
    /\ pc = "closure_call"
    /\ caller = "get_all_dependencies"
    /\ call = NoCall
    /\ ret = {}
    /\ direct_deps \in ClosureSeeds
    /\ deps_graph \in ClosureGraphs
    /\ versions = EmptyMap
    /\ all_deps = {}
    /\ to_process = {}
    /\ popped = <<>>
    /\ subdeps = {}
    /\ file = "untouched"
    /\ out = <<>>
    /\ idx = 0
    /\ lookup = NoLookup
    /\ printed = {}
    /\ scan_status = "none"
    /\ tree_status = "none"

NextClosure == ClosureEnter \/ LoopStep \/ ClosureReturn

ClosureSpec == InitClosure /\ [][NextClosure]_vars

\* the interpreter keeps executing the loop: a step that can be taken is taken
FairClosureSpec == ClosureSpec /\ WF_vars(NextClosure)

(***************************************************************************)
(* Claims about get_all_dependencies                                       *)
(***************************************************************************)
\* the packages reachable from D by zero or more edges of G
RECURSIVE ReachFrom(_, _)
ReachFrom(R, G) ==
    LET step == R \cup UNION {G[p] : p \in R \cap DOMAIN G}
    IN  IF step = R THEN R ELSE ReachFrom(step, G)

\* C1: the seeds are in all_deps in every state of the work-list loop and in
\* the returned set.
C1_SeedsIncluded ==
    /\ pc = "closure_loop" => direct_deps \subseteq all_deps
    /\ pc = "closure_returned" => direct_deps \subseteq ret

C1_Witness ==
    /\ pc = "closure_returned"
    /\ S_c \in direct_deps
    /\ S_c \notin DOMAIN deps_graph
    /\ S_a \in direct_deps /\ S_a \in DOMAIN deps_graph /\ S_a \in deps_graph[S_a]
    /\ Len(popped) >= 2

\* C2: the returned set is closed under the graph.
C2_ClosedUnderGraph ==
    pc = "closure_returned" =>
        \A p \in ret \cap DOMAIN deps_graph : deps_graph[p] \subseteq ret

C2_Witness ==
    /\ pc = "closure_returned"
    /\ direct_deps = {S_a}
    /\ S_a \in DOMAIN deps_graph /\ deps_graph[S_a] = {S_b}
    /\ S_b \in DOMAIN deps_graph /\ deps_graph[S_b] = {S_c}
    /\ ret = {S_a, S_b, S_c}

\* C3: under every pop order the loop terminates, and what is returned is
\* exactly the set of packages reachable from the seeds.
C3_TerminatesWithReachable ==
    /\ <>(pc = "closure_returned")
    /\ [](pc = "closure_returned" => ret = ReachFrom(direct_deps, deps_graph))

C3_Witness ==
    /\ pc = "closure_returned"
    /\ direct_deps = {S_a}
    /\ S_a \in DOMAIN deps_graph /\ deps_graph[S_a] = {S_b}
    /\ S_b \in DOMAIN deps_graph /\ deps_graph[S_b] = {S_a}
    /\ S_c \in DOMAIN deps_graph /\ deps_graph[S_c] = {S_a}
    /\ ret = {S_a, S_b}

\* C10: no name is popped twice, the work-list is a subset of all_deps, and a
\* popped name is not on the work-list again.
C10_ExpandedAtMostOnce ==
    pc \in {"closure_loop", "closure_returned"} =>
        /\ \A i, j \in 1..Len(popped) : i # j => popped[i] # popped[j]
        /\ to_process \subseteq all_deps
        /\ \A i \in 1..Len(popped) : popped[i] \notin to_process

C10_Witness ==
    /\ pc = "closure_returned"
    /\ Len(popped) = 3
    /\ \A p \in ClosurePkgs : p \in DOMAIN deps_graph /\ deps_graph[p] = ClosurePkgs
    /\ direct_deps = {S_a}

(***************************************************************************)
(* Collaborator outcomes                                                   *)
(***************************************************************************)
S_err == <<69>>
S_x == <<120>>

\* subprocess.run(..., check=True) raising CalledProcessError: non-zero exit,
\* with or without text on the error stream
Failures == {[exit |-> 1, stderr |-> S_empty], [exit |-> 1, stderr |-> S_err]}

\* the lines of seq at the positions in S, in order, from position i on
RECURSIVE PickFrom(_, _, _)
PickFrom(seq, S, i) ==
    IF i > Len(seq) THEN <<>>
    ELSE (IF i \in S THEN <<seq[i]>> ELSE <<>>) \o PickFrom(seq, S, i + 1)

\* every text made of some of the lines of seq, in their order
SubTexts(seq) == {PickFrom(seq, S, 1) : S \in SUBSET (1..Len(seq))}

(***************************************************************************)
(* get_dependency_tree()                                                   *)
(***************************************************************************)
\* lines of "pipdeptree --freeze": name==version, an editable install pinned
\* to a path, a line without '==', and a line with two '=='
FreezeListing ==
    << <<S_a, V_1>>, <<S_A_hyphen_b, V_2>>, <<S_c, V_path>>, <<S_x>>,
       <<S_b, V_1, V_2>> >>

FreezeOutcomes ==
    Failures \cup {[exit |-> 0, stdout |-> t] : t \in SubTexts(FreezeListing)}

\* nodes of "pipdeptree --json-tree": {key, dependencies} records; a record
\* may lack either field
TreeKeys == {S_a, S_B, S_c}
MaxRoots == 1
TreeLeaves == {[key |-> k] : k \in TreeKeys} \cup {[dependencies |-> <<>>]}
TreeNodes1 ==
    TreeLeaves \cup {[key |-> k, dependencies |-> <<c>>] : k \in TreeKeys, c \in TreeLeaves}
TreeNodes2 ==
    TreeLeaves \cup {[key |-> k, dependencies |-> <<c>>] : k \in TreeKeys, c \in TreeNodes1}
Forests == UNION {[1..n -> TreeNodes2] : n \in 0..MaxRoots}

\* stdout of --json-tree: text json.loads rejects, or a list of nodes
JsonOutcomes ==
    Failures \cup {[exit |-> 0, json |-> FALSE]}
             \cup {[exit |-> 0, json |-> TRUE, tree |-> f] : f \in Forests}

\* s.strip() (blanks)
RECURSIVE Strip(_)
Strip(s) ==
    IF s = <<>> THEN s
    ELSE IF Head(s) = 32 THEN Strip(Tail(s))
    ELSE IF s[Len(s)] = 32 THEN Strip(SubSeq(s, 1, Len(s) - 1))
    ELSE s

\* lines 81-86: the version map; "name, version = line.split('==')" raises
\* ValueError unless the line has exactly two fields
RECURSIVE ParseVersions(_, _, _)
ParseVersions(lines, i, acc) ==
    IF i > Len(lines) THEN [raised |-> FALSE, value |-> acc]
    ELSE LET line == lines[i] IN
         IF Len(line) >= 2
         THEN IF Len(line) # 2 THEN [raised |-> TRUE, value |-> acc]
              ELSE LET name == line[1]
                       version == line[2]
                   IN  IF ~(Contains(version, 47) \/ Contains(version, 92))
                       THEN ParseVersions(lines, i + 1,
                                Put(acc, Lower(Strip(name)), Strip(version)))
                       ELSE ParseVersions(lines, i + 1, acc)
         ELSE ParseVersions(lines, i + 1, acc)

\* pkg_info.get('key', '')
KeyOf(node) == IF "key" \in DOMAIN node THEN node.key ELSE S_empty

\* pkg_info.get('dependencies', [])
DepsOf(node) == IF "dependencies" \in DOMAIN node THEN node.dependencies ELSE <<>>

\* line 100: deps_graph[pkg_name].add(dep_name)
AddChild(graph, pkg_name, dep_name) ==
    [graph EXCEPT ![pkg_name] = @ \cup {dep_name}]

\* lines 91-102: process_dependencies(pkg_info), on the graph built so far;
\* ProcessChildren is the for loop of lines 97-102 from its i-th child on
RECURSIVE ProcessDependencies(_, _)
RECURSIVE ProcessChildren(_, _, _, _)
ProcessDependencies(graph, pkg_info) ==
    LET pkg_name == Lower(KeyOf(pkg_info)) IN
    IF pkg_name = S_empty THEN graph
    ELSE ProcessChildren(Put(graph, pkg_name, {}), pkg_name, DepsOf(pkg_info), 1)

ProcessChildren(graph, pkg_name, deps, i) ==
    IF i > Len(deps) THEN graph
    ELSE LET dep_name == Lower(KeyOf(deps[i])) IN
         IF dep_name # S_empty
         THEN ProcessChildren(
                  ProcessDependencies(AddChild(graph, pkg_name, dep_name), deps[i]),
                  pkg_name, deps, i + 1)
         ELSE ProcessChildren(graph, pkg_name, deps, i + 1)

\* lines 105-106: for package in tree: process_dependencies(package)
RECURSIVE ProcessTree(_, _, _)
ProcessTree(graph, tree, i) ==
    IF i > Len(tree) THEN graph
    ELSE ProcessTree(ProcessDependencies(graph, tree[i]), tree, i + 1)

\* lines 109-111: the CalledProcessError handler.  The collaborator is run with
\* text=True, so e.stderr is a str: when it is non-empty the handler evaluates
\* e.stderr.decode(), which raises AttributeError inside the handler
HandlerRaises(failure) == failure.stderr # S_empty

TreeResult(status, vs, graph) ==
    [status |-> status, versions |-> vs, deps_graph |-> graph]

\* lines 70-117: get_dependency_tree() given what the two pipdeptree runs do
GetDependencyTree(json, freeze) ==
    IF json.exit # 0
    THEN IF HandlerRaises(json) THEN TreeResult("uncaught", EmptyMap, EmptyMap)
         ELSE TreeResult("failed", EmptyMap, EmptyMap)
    ELSE IF ~json.json THEN TreeResult("failed", EmptyMap, EmptyMap)
    ELSE IF freeze.exit # 0
    THEN IF HandlerRaises(freeze) THEN TreeResult("uncaught", EmptyMap, EmptyMap)
         ELSE TreeResult("failed", EmptyMap, EmptyMap)
    ELSE LET parsed == ParseVersions(freeze.stdout, 1, EmptyMap) IN
         IF parsed.raised THEN TreeResult("failed", EmptyMap, EmptyMap)
         ELSE TreeResult("ok", parsed.value, ProcessTree(EmptyMap, json.tree, 1))

\* the call of get_dependency_tree: line 154 of generate_requirements, or a
\* direct call whose collaborator outputs are recorded in call
TreeCall ==
    /\ pc = "tree_call"
    /\ \E json \in JsonOutcomes, freeze \in FreezeOutcomes :
        /\ caller = "get_dependency_tree" => (call.json = json /\ call.freeze = freeze)
        /\ LET r == GetDependencyTree(json, freeze) IN
            /\ tree_status' = r.status
            /\ versions' = r.versions
            /\ deps_graph' = r.deps_graph
            /\ pc' = IF r.status = "uncaught" THEN "tree_uncaught" ELSE "tree_returned"
    /\ UNCHANGED <<caller, call, ret, direct_deps, all_deps, to_process, popped,
                   subdeps, file, out, idx, lookup, printed, scan_status>>

\* a direct call get_dependency_tree()
InitTree ==
    /\ pc = "tree_call"
    /\ caller = "get_dependency_tree"
    /\ \E json \in JsonOutcomes, freeze \in FreezeOutcomes :
        call = [fn |-> "get_dependency_tree", json |-> json, freeze |-> freeze]
    /\ ret = {}
    /\ direct_deps = {}
    /\ deps_graph = EmptyMap
    /\ versions = EmptyMap
    /\ all_deps = {}
    /\ to_process = {}
    /\ popped = <<>>
    /\ subdeps = {}
    /\ file = "untouched"
    /\ out = <<>>
    /\ idx = 0
    /\ lookup = NoLookup
    /\ printed = {}
    /\ scan_status = "none"
    /\ tree_status = "none"

TreeSpec == InitTree /\ [][TreeCall]_vars

\* lines 133-138: normalize_package_name
NormalizePackageName(package_name) ==
    IF Contains(package_name, 45) THEN Replace(package_name, 45, 95)
    ELSE package_name

\* lines 174-175, first operand: versions.get(normalize_package_name(package), '')
VersionLookup(vs, package) == Get(vs, NormalizePackageName(package))

(***************************************************************************)
(* Claims about get_dependency_tree and the version map                    *)
(***************************************************************************)
\* every node of a list of nodes, at any depth
RECURSIVE NodesOf(_)
NodesOf(nodes) ==
    UNION {{nodes[i]} \cup NodesOf(DepsOf(nodes[i])) : i \in 1..Len(nodes)}

NodeName(node) == Lower(KeyOf(node))

ChildNames(node) ==
    {NodeName(DepsOf(node)[i]) : i \in 1..Len(DepsOf(node))} \ {S_empty}

TreeWalked ==
    /\ caller = "get_dependency_tree"
    /\ pc = "tree_returned"
    /\ tree_status = "ok"

\* C9: after the walk, deps_graph[p] is the union of the children of every
\* occurrence of p in the tree.
C9_ChildSetsAreUnions ==
    TreeWalked =>
        \A n \in NodesOf(call.json.tree) :
            NodeName(n) # S_empty =>
                /\ NodeName(n) \in DOMAIN deps_graph
                /\ deps_graph[NodeName(n)] =
                       UNION {ChildNames(m) : m \in {x \in NodesOf(call.json.tree) :
                                                        NodeName(x) = NodeName(n)}}

\* two spellings of one package: equal up to letter case and '-' versus '_'
Canonical(s) == Replace(Lower(s), 45, 95)
Spellings == {S_a, S_a_hyphen_b, S_a_under_b, S_A_hyphen_b, S_A_under_B}

\* C6: when the freeze listing has an entry for a package under one spelling,
\* the lookup for every spelling of that package yields that entry's version.
C6_SpellingsShareEntry ==
    TreeWalked =>
        \A i \in 1..Len(call.freeze.stdout) :
            LET line == call.freeze.stdout[i] IN
            (Len(line) = 2 /\ ~Contains(line[2], 47)) =>
                \A s \in Spellings :
                    Canonical(s) = Canonical(line[1]) =>
                        VersionLookup(versions, s) = line[2]

(***************************************************************************)
(* get_imported_packages(project_path)                                     *)
(***************************************************************************)
\* lines of the file pipreqs writes: name or name==version
ScanListing == << <<S_a>>, <<S_B, V_1>>, <<S_a_hyphen_b>> >>

ScanOutcomes ==
    Failures \cup {[exit |-> 0, saved |-> t] : t \in SubTexts(ScanListing)}

\* s.lstrip() (blanks)
RECURSIVE LStrip(_)
LStrip(s) == IF s # <<>> /\ Head(s) = 32 THEN LStrip(Tail(s)) ELSE s

\* line 23: line.strip().split('==')[0].lower(); strip() reaches the end of
\* the first field only when that field is the whole line
ScanPackage(line) ==
    Lower(IF Len(line) = 1 THEN Strip(line[1]) ELSE LStrip(line[1]))

\* lines 14-34: get_imported_packages given what the pipreqs run does
GetImportedPackages(scan) ==
    IF scan.exit # 0
    THEN IF HandlerRaises(scan) THEN [status |-> "uncaught", value |-> {}]
         ELSE [status |-> "failed", value |-> {}]
    ELSE [status |-> "ok",
          value |-> {ScanPackage(scan.saved[i]) : i \in 1..Len(scan.saved)}]

(***************************************************************************)
(* get_package_version(package_name)                                       *)
(***************************************************************************)
Latest == <<108, 97, 116, 101, 115, 116>>

\* "pip show" prints header lines; line.startswith('Version: ') holds of the
\* lines whose field is Version
ShowName == [field |-> "Name", value |-> S_x]
ShowVersion == [field |-> "Version", value |-> V_3]
ShowBlankVersion == [field |-> "Version", value |-> S_empty]

ResolverFailures == {[exit |-> 1, stderr |-> S_err]}

ShowOutcomes ==
    ResolverFailures
        \cup {[exit |-> 0, stdout |-> t] : t \in SubTexts(<<ShowName, ShowVersion>>)}
        \cup {[exit |-> 0, stdout |-> <<ShowBlankVersion>>]}

PipFreezeOutcomes ==
    ResolverFailures
        \cup {[exit |-> 0, stdout |-> t] : t \in SubTexts(<< <<S_B, V_2>> >>)}

PdtFreezeOutcomes ==
    ResolverFailures
        \cup {[exit |-> 0, stdout |-> t] : t \in SubTexts(<< <<S_c, V_1>> >>)}

\* lines 42-44: the first 'Version: ' line of the show output, from line i on
RECURSIVE ShowScan(_, _)
ShowScan(lines, i) ==
    IF i > Len(lines) THEN [hit |-> FALSE, value |-> S_empty]
    ELSE IF lines[i].field = "Version"
         THEN [hit |-> TRUE, value |-> Strip(lines[i].value)]
         ELSE ShowScan(lines, i + 1)

\* lines 49-51 and 56-58: the first line with line.lower().startswith(name + '==')
RECURSIVE FreezeScan(_, _, _)
FreezeScan(lines, package_name, i) ==
    IF i > Len(lines) THEN [hit |-> FALSE, value |-> S_empty]
    ELSE IF Len(lines[i]) >= 2 /\ Lower(lines[i][1]) = package_name
         THEN [hit |-> TRUE, value |-> Strip(lines[i][2])]
         ELSE FreezeScan(lines, package_name, i + 1)

Resolved(result, consulted, failed) ==
    [result |-> result, consulted |-> consulted, failed |-> failed]

\* lines 38-64: get_package_version given what the three collaborator runs do;
\* the three methods share one try block, so the first CalledProcessError
\* ends the function
GetPackageVersion(package_name, show, pipfreeze, pdtfreeze) ==
    IF show.exit # 0 THEN Resolved(Latest, <<"show">>, TRUE)
    ELSE IF ShowScan(show.stdout, 1).hit
         THEN Resolved(ShowScan(show.stdout, 1).value, <<"show">>, FALSE)
    ELSE IF pipfreeze.exit # 0 THEN Resolved(Latest, <<"show", "freeze">>, TRUE)
    ELSE IF FreezeScan(pipfreeze.stdout, package_name, 1).hit
         THEN Resolved(FreezeScan(pipfreeze.stdout, package_name, 1).value,
                       <<"show", "freeze">>, FALSE)
    ELSE IF pdtfreeze.exit # 0
         THEN Resolved(Latest, <<"show", "freeze", "pipdeptree">>, TRUE)
    ELSE IF FreezeScan(pdtfreeze.stdout, package_name, 1).hit
         THEN Resolved(FreezeScan(pdtfreeze.stdout, package_name, 1).value,
                       <<"show", "freeze", "pipdeptree">>, FALSE)
    ELSE Resolved(Latest, <<"show", "freeze", "pipdeptree">>, FALSE)

ResolverNames == {S_a, S_b, S_c, S_a_under_b}

\* a direct call get_package_version(name)
ResolveCall ==
    /\ pc = "resolve_call"
    /\ ret' = GetPackageVersion(call.name, call.show, call.pipfreeze, call.pdtfreeze)
    /\ pc' = "resolve_returned"
    /\ UNCHANGED <<caller, call, direct_deps, versions, deps_graph, all_deps,
                   to_process, popped, subdeps, file, out, idx, lookup, printed,
                   scan_status, tree_status>>

InitResolve ==
    /\ pc = "resolve_call"
    /\ caller = "get_package_version"
    /\ \E n \in ResolverNames, s \in ShowOutcomes, f \in PipFreezeOutcomes,
          t \in PdtFreezeOutcomes :
        call = [fn |-> "get_package_version", name |-> n, show |-> s,
                pipfreeze |-> f, pdtfreeze |-> t]
    /\ ret = {}
    /\ direct_deps = {}
    /\ deps_graph = EmptyMap
    /\ versions = EmptyMap
    /\ all_deps = {}
    /\ to_process = {}
    /\ popped = <<>>
    /\ subdeps = {}
    /\ file = "untouched"
    /\ out = <<>>
    /\ idx = 0
    /\ lookup = NoLookup
    /\ printed = {}
    /\ scan_status = "none"
    /\ tree_status = "none"

ResolveSpec == InitResolve /\ [][ResolveCall]_vars

(***************************************************************************)
(* Claims about get_package_version                                        *)
(***************************************************************************)
\* what one source yields for the name: "fails", "nothing" or a version
ShowYield(show) ==
    IF show.exit # 0 THEN "fails"
    ELSE IF \E i \in 1..Len(show.stdout) : show.stdout[i].field = "Version"
         THEN "version" ELSE "nothing"

FreezeYield(freeze, name) ==
    IF freeze.exit # 0 THEN "fails"
    ELSE IF \E i \in 1..Len(freeze.stdout) :
                Len(freeze.stdout[i]) >= 2 /\ Lower(freeze.stdout[i][1]) = name
         THEN "version" ELSE "nothing"

\* C5: the sources are consulted in the order show, freeze, pipdeptree; a
\* source that fails or yields nothing hands over to the next one; the
\* sentinel is returned only after all three were tried without a version.
C5_FallbackChain ==
    (caller = "get_package_version" /\ pc = "resolve_returned") =>
        LET y1 == ShowYield(call.show)
            y2 == FreezeYield(call.pipfreeze, call.name)
            y3 == FreezeYield(call.pdtfreeze, call.name)
        IN  /\ y1 = "version" => ret.consulted = <<"show">>
            /\ (y1 # "version" /\ y2 = "version") =>
                   /\ ret.consulted = <<"show", "freeze">>
                   /\ ret.result = FreezeScan(call.pipfreeze.stdout, call.name, 1).value
            /\ (y1 # "version" /\ y2 # "version") =>
                   ret.consulted = <<"show", "freeze", "pipdeptree">>
            /\ (y1 # "version" /\ y2 # "version" /\ y3 = "version") =>
                   ret.result = FreezeScan(call.pdtfreeze.stdout, call.name, 1).value
            /\ ret.result = Latest =>
                   (y1 # "version" /\ y2 # "version" /\ y3 # "version"
                    /\ ret.consulted = <<"show", "freeze", "pipdeptree">>)

(***************************************************************************)
(* generate_requirements(project_path, output_file)                        *)
(***************************************************************************)
InRun == caller = "generate_requirements"

\* "# 直接依赖" and "# 子依赖"
DirectHeader == <<35, 32, 30452, 25509, 20381, 36182>>
SubHeader == <<35, 32, 23376, 20381, 36182>>
EqEq == <<61, 61>>

\* line 143: direct_deps = get_imported_packages(project_path)
ScanCall ==
    /\ pc = "scan_call"
    /\ \E scan \in ScanOutcomes :
        LET r == GetImportedPackages(scan) IN
            /\ scan_status' = r.status
            /\ direct_deps' = r.value
            /\ pc' = IF r.status = "uncaught" THEN "scan_uncaught" ELSE "scan_returned"
    /\ UNCHANGED <<caller, call, ret, versions, deps_graph, all_deps, to_process,
                   popped, subdeps, file, out, idx, lookup, printed, tree_status>>

\* lines 145-147: if not direct_deps: print(...); return
NoDirectDeps ==
    /\ InRun /\ pc = "scan_returned"
    /\ direct_deps = {}
    /\ printed' = printed \cup {"no_imported_packages"}
    /\ pc' = "done"
    /\ UNCHANGED <<caller, call, ret, direct_deps, versions, deps_graph, all_deps,
                   to_process, popped, subdeps, file, out, idx, lookup,
                   scan_status, tree_status>>

\* lines 149-154: the direct packages are listed and get_dependency_tree is called
DirectDepsFound ==
    /\ InRun /\ pc = "scan_returned"
    /\ direct_deps # {}
    /\ pc' = "tree_call"
    /\ UNCHANGED <<caller, call, ret, direct_deps, versions, deps_graph, all_deps,
                   to_process, popped, subdeps, file, out, idx, lookup, printed,
                   scan_status, tree_status>>

\* line 156: if not versions or not deps_graph
NoDependencyInfoEitherEmpty(vs, graph) == vs = EmptyMap /\ graph = EmptyMap
NoDependencyInfo(vs, graph) == vs = EmptyMap \/ graph = EmptyMap

\* lines 156-158: print(...); return
DependencyInfoMissing ==
    /\ InRun /\ pc = "tree_returned"
    /\ NoDependencyInfo(versions, deps_graph)
    /\ printed' = printed \cup {"no_dependency_info"}
    /\ pc' = "done"
    /\ UNCHANGED <<caller, call, ret, direct_deps, versions, deps_graph, all_deps,
                   to_process, popped, subdeps, file, out, idx, lookup,
                   scan_status, tree_status>>

\* line 161: the call get_all_dependencies(direct_deps, deps_graph)
CallClosure ==
    /\ InRun /\ pc = "tree_returned"
    /\ ~NoDependencyInfo(versions, deps_graph)
    /\ pc' = "closure_call"
    /\ UNCHANGED <<caller, call, ret, direct_deps, versions, deps_graph, all_deps,
                   to_process, popped, subdeps, file, out, idx, lookup, printed,
                   scan_status, tree_status>>

\* lines 161-167: all_deps = <returned set>; subdeps = all_deps - direct_deps
ComputeSubdeps ==
    /\ InRun /\ pc = "closure_returned"
    /\ all_deps' = ret
    /\ subdeps' = ret \ direct_deps
    /\ pc' = "open_output"
    /\ UNCHANGED <<caller, call, ret, direct_deps, versions, deps_graph,
                   to_process, popped, file, out, idx, lookup, printed,
                   scan_status, tree_status>>

\* lines 171-172: open(output_file, 'w') truncates the file; the header is written
OpenOutput ==
    /\ InRun /\ pc = "open_output"
    /\ file' = "open"
    /\ out' = <<DirectHeader>>
    /\ idx' = 1
    /\ pc' = "write_direct"
    /\ UNCHANGED <<caller, call, ret, direct_deps, versions, deps_graph, all_deps,
                   to_process, popped, subdeps, lookup, printed,
                   scan_status, tree_status>>

\* lines 173 and 184: the order in which a section's packages are written
SectionOrderUnsorted(S) ==
    LET RECURSIVE Rev(_)
        Rev(q) == IF q = <<>> THEN <<>> ELSE Rev(Tail(q)) \o <<Head(q)>>
    IN  Rev(Sorted(S))
SectionOrder(S) == Sorted(S)

\* lines 176 and 187: if version and version != "latest"
Pinnable(version) == version # S_empty /\ version # Latest

\* lines 176-180 and 187-191: the line written for a package
ManifestLine(package, version) ==
    IF Pinnable(version) THEN package \o EqEq \o version ELSE package

\* lines 174-180 and 185-191: one iteration of a for loop: the version map is
\* consulted, get_package_version is called when it has no version, and the
\* line is written
WriteLine(package) ==
    LET normalized_name == NormalizePackageName(package)
        mapped == VersionLookup(versions, package)
    IN  IF mapped # S_empty
        THEN /\ out' = Append(out, ManifestLine(package, mapped))
             /\ lookup' = [name |-> package, found |-> mapped, source |-> "map",
                           failed |-> FALSE]
        ELSE \E show \in ShowOutcomes, pipfreeze \in PipFreezeOutcomes,
                pdtfreeze \in PdtFreezeOutcomes :
                LET r == GetPackageVersion(normalized_name, show, pipfreeze, pdtfreeze)
                IN  /\ out' = Append(out, ManifestLine(package, r.result))
                    /\ lookup' = [name |-> package, found |-> r.result,
                                  source |-> "resolver", failed |-> r.failed]

\* lines 173-180: for package in sorted(direct_deps)
WriteDirectLine ==
    /\ InRun /\ pc = "write_direct"
    /\ idx <= Len(SectionOrder(direct_deps))
    /\ WriteLine(SectionOrder(direct_deps)[idx])
    /\ idx' = idx + 1
    /\ UNCHANGED <<pc, caller, call, ret, direct_deps, versions, deps_graph, all_deps,
                   to_process, popped, subdeps, file, printed,
                   scan_status, tree_status>>

\* lines 182-183: if subdeps: f.write("\n# 子依赖\n")
WriteSubHeader ==
    /\ InRun /\ pc = "write_direct"
    /\ idx > Len(SectionOrder(direct_deps))
    /\ subdeps # {}
    /\ out' = out \o <<S_empty, SubHeader>>
    /\ idx' = 1
    /\ pc' = "write_sub"
    /\ UNCHANGED <<caller, call, ret, direct_deps, versions, deps_graph, all_deps,
                   to_process, popped, subdeps, file, lookup, printed,
                   scan_status, tree_status>>

\* lines 184-191: for package in sorted(subdeps)
WriteSubLine ==
    /\ InRun /\ pc = "write_sub"
    /\ idx <= Len(SectionOrder(subdeps))
    /\ WriteLine(SectionOrder(subdeps)[idx])
    /\ idx' = idx + 1
    /\ UNCHANGED <<pc, caller, call, ret, direct_deps, versions, deps_graph, all_deps,
                   to_process, popped, subdeps, file, printed,
                   scan_status, tree_status>>

\* line 193: the with block is left, the file is closed, the run ends
CloseOutput ==
    /\ InRun
    /\ \/ pc = "write_direct" /\ idx > Len(SectionOrder(direct_deps)) /\ subdeps = {}
       \/ pc = "write_sub" /\ idx > Len(SectionOrder(subdeps))
    /\ file' = "closed"
    /\ pc' = "done"
    /\ UNCHANGED <<caller, call, ret, direct_deps, versions, deps_graph, all_deps,
                   to_process, popped, subdeps, out, idx, lookup, printed,
                   scan_status, tree_status>>

\* lines 195-203: the program is run; generate_requirements is entered
Init ==
    /\ pc = "scan_call"
    /\ caller = "generate_requirements"
    /\ call = NoCall
    /\ ret = {}
    /\ direct_deps = {}
    /\ deps_graph = EmptyMap
    /\ versions = EmptyMap
    /\ all_deps = {}
    /\ to_process = {}
    /\ popped = <<>>
    /\ subdeps = {}
    /\ file = "untouched"
    /\ out = <<>>
    /\ idx = 0
    /\ lookup = NoLookup
    /\ printed = {}
    /\ scan_status = "none"
    /\ tree_status = "none"

Next ==
    \/ ScanCall
    \/ NoDirectDeps
    \/ DirectDepsFound
    \/ TreeCall
    \/ DependencyInfoMissing
    \/ CallClosure
    \/ ClosureEnter
    \/ LoopStep
    \/ ClosureReturn
    \/ ComputeSubdeps
    \/ OpenOutput
    \/ WriteDirectLine
    \/ WriteSubHeader
    \/ WriteSubLine
    \/ CloseOutput

Spec == Init /\ [][Next]_vars

(***************************************************************************)
(* Claims about generate_requirements                                      *)
(***************************************************************************)
\* C4: no collaborator failure lets an exception escape its component; each
\* failure ends with the component's empty result: the empty set, two empty
\* maps, the unknown-version sentinel.
C4_FailuresBecomeSentinels ==
    InRun =>
        /\ pc \notin {"scan_uncaught", "tree_uncaught"}
        /\ scan_status # "uncaught" /\ tree_status # "uncaught"
        /\ scan_status = "failed" => direct_deps = {}
        /\ tree_status = "failed" => (versions = EmptyMap /\ deps_graph = EmptyMap)
        /\ (lookup.source = "resolver" /\ lookup.failed) => lookup.found = Latest

\* C7: the output file is touched only after the scanner returned a non-empty
\* set and the graph builder returned a version map and a graph; a run that
\* got an empty set, or an empty map or graph, leaves the file untouched and
\* ends with the error diagnostic printed.
C7_NoManifestWithoutInputs ==
    InRun =>
        /\ file # "untouched" =>
               /\ scan_status = "ok" /\ direct_deps # {}
               /\ tree_status = "ok" /\ versions # EmptyMap /\ deps_graph # EmptyMap
        /\ (pc = "done" /\ direct_deps = {}) =>
               (file = "untouched" /\ out = <<>> /\ "no_imported_packages" \in printed)
        /\ (pc = "done" /\ direct_deps # {}
                /\ (versions = EmptyMap \/ deps_graph = EmptyMap)) =>
               (file = "untouched" /\ out = <<>> /\ "no_dependency_info" \in printed)

C7_Witness ==
    /\ InRun /\ pc = "done"
    /\ direct_deps # {}
    /\ tree_status = "ok"
    /\ versions # EmptyMap /\ deps_graph = EmptyMap
    /\ "no_dependency_info" \in printed
    /\ file = "untouched"

\* the position of the first '==' of a line, 0 when it has none
FirstEqEq(line) ==
    IF \E i \in 1..(Len(line) - 1) : line[i] = 61 /\ line[i + 1] = 61
    THEN CHOOSE i \in 1..(Len(line) - 1) :
             /\ line[i] = 61 /\ line[i + 1] = 61
             /\ \A j \in 1..(i - 1) : ~(line[j] = 61 /\ line[j + 1] = 61)
    ELSE 0

LineIsPinned(line) == FirstEqEq(line) # 0
LineName(line) ==
    IF LineIsPinned(line) THEN SubSeq(line, 1, FirstEqEq(line) - 1) ELSE line
LineVersion(line) == SubSeq(line, FirstEqEq(line) + 2, Len(line))

\* the i-th name of S in ascending order: i-1 names of S are smaller
NameAt(S, i) == CHOOSE x \in S : Cardinality({y \in S : StrLess(y, x)}) = i - 1

\* C8: the manifest is the direct header, one line per direct name in
\* ascending order, and, exactly when there are sub-dependencies, a blank
\* line, the sub-dependency header and one line per sub-dependency in
\* ascending order; no name is in both sections; a line is name==version when
\* the lookup found a version and the bare name otherwise, never pinning
\* 'latest' or the empty version.
C8_ManifestLayout ==
    /\ (InRun /\ pc = "done" /\ file = "closed") =>
        LET sub == ret \ direct_deps
            nd == Cardinality(direct_deps)
            ns == Cardinality(sub)
            pkgLines == (2..(nd + 1)) \cup ((nd + 4)..Len(out))
        IN  /\ Len(out) = 1 + nd + (IF ns > 0 THEN 2 + ns ELSE 0)
            /\ out[1] = DirectHeader
            /\ \A i \in 1..nd : LineName(out[1 + i]) = NameAt(direct_deps, i)
            /\ ns > 0 =>
                   /\ out[nd + 2] = S_empty
                   /\ out[nd + 3] = SubHeader
                   /\ \A i \in 1..ns : LineName(out[nd + 3 + i]) = NameAt(sub, i)
            /\ \A i \in 1..nd : \A j \in (nd + 4)..Len(out) :
                   LineName(out[1 + i]) # LineName(out[j])
            /\ \A i \in pkgLines :
                   LineIsPinned(out[i]) => LineVersion(out[i]) \notin {S_empty, Latest}
    /\ (InRun /\ pc \in {"write_direct", "write_sub"} /\ idx > 1) =>
        out[Len(out)] = IF lookup.found \notin {S_empty, Latest}
                        THEN lookup.name \o EqEq \o lookup.found
                        ELSE lookup.name

C8_Witness ==
    /\ InRun /\ pc = "done" /\ file = "closed"
    /\ direct_deps = {S_a, S_b}
    /\ ret = {S_a, S_b, S_c}
    /\ out = <<DirectHeader, S_a \o EqEq \o V_1, S_b, S_empty, SubHeader,
               S_c \o EqEq \o V_1>>

====
